---------------------------- MODULE Spec2Model ----------------------------
(***************************************************************************)
(* Model of the AIOps agent (src/function_app/__init__.py) and of its      *)
(* remediation function, the Action Guard (src/remediation/__init__.py).   *)
(*                                                                         *)
(* Python values are tagged records, so that values of different Python    *)
(* types can sit in one set and be compared:                               *)
(*   NoneV            None / JSON null                                     *)
(*   Absent           "this key is not in the dict" (what dict.get sees)   *)
(*   S(s)             a str                                                *)
(*   N(n)             an int (a float is held as hundredths)               *)
(*   B(b)             a bool                                               *)
(*   L(seq)           a list                                               *)
(*   D(pairs)         a dict the code only passes on, as its key-value    *)
(*                    pairs in insertion order (params, JSON bodies)       *)
(* Dicts whose keys the code reads are records tagged k = "dict" with one  *)
(* field per key, Absent standing for a missing key.                       *)
(***************************************************************************)
EXTENDS Naturals, Sequences, FiniteSets, TLC

VARIABLES
    pc,               \* position of the agent's invocation (main / _maybe_remediate)
    plan,             \* the plan dict as main holds it (mutated by the append step)
    plan0,            \* history: the plan as it entered the current dispatch
    remediation_url,  \* os.getenv("REMEDIATION_URL", "")
    remediation_key,  \* os.getenv("REMEDIATION_KEY", None)
    results,          \* _maybe_remediate's local list `results`
    idx,              \* position of the for loop of _maybe_remediate (1-based)
    calls,            \* history: every requests.post issued to the remediation URL
    passes,           \* history: how many times the plan went through dispatch before
    env,              \* the other settings main reads from the environment
    body,             \* main: the request body as parsed (or {} on failure)
    incident_ctx,     \* main: the incident context
    logs_sample,      \* main: rows returned by _run_kql
    kb_docs,          \* main: documents returned by _rag_search
    teams_status,     \* main: what _post_to_teams returned
    response,         \* main: the HTTP response returned, or the unhandled error
    safe_actions,     \* remediation: the module global SAFE_ACTIONS
    guard_log         \* history: every request the Action Guard handled, with its result

vars == <<pc, plan, plan0, remediation_url, remediation_key, results, idx, calls,
          passes, env, body, incident_ctx, logs_sample, kb_docs, teams_status,
          response, safe_actions, guard_log>>

---------------------------------------------------------------------------
(* Python values *)

NoneV == [k |-> "None"]
Absent == [k |-> "absent"]
S(s) == [k |-> "str", v |-> s]
N(n) == [k |-> "int", v |-> n]
B(b) == [k |-> "bool", v |-> b]
L(seq) == [k |-> "list", v |-> seq]
D(pairs) == [k |-> "dict*", v |-> pairs]

\* dict.get(key, default): the value, or the default when the key is missing.
Get(value, default) == IF value = Absent THEN default ELSE value

\* Python truthiness of a value (bool(x)).
Truthy(x) ==
    CASE x.k = "None" -> FALSE
      [] x.k = "absent" -> FALSE
      [] x.k = "str" -> x.v # ""
      [] x.k = "int" -> x.v # 0
      [] x.k = "bool" -> x.v
      [] x.k = "list" -> x.v # <<>>
      [] x.k = "dict*" -> x.v # <<>>
      [] OTHER -> TRUE   \* a dict with keys

\* Whether hash(x) succeeds: lists and dicts are unhashable.
Hashable(x) == x.k \notin {"list", "dict*", "dict"}

\* str.lower() on the strings of the model (ASCII letters only are folded).
Lower(s) ==
    CASE s = "LOW" -> "low"
      [] s = "Low" -> "low"
      [] s = "MEDIUM" -> "medium"
      [] s = "Medium" -> "medium"
      [] s = "HIGH" -> "high"
      [] s = "N/A" -> "n/a"
      [] OTHER -> s

\* str(x) as an f-string renders it ({x}).
Format(x) ==
    CASE x.k = "str" -> x.v
      [] x.k = "None" -> "None"
      [] OTHER -> "?"

Min(a, b) == IF a <= b THEN a ELSE b

\* s[:n]
Take(s, n) == SubSeq(s, 1, Min(Len(s), n))

RECURSIVE Repeat(_, _)
\* s * n
Repeat(s, n) ==
    IF n = 0 THEN ""
    ELSE LET half == Repeat(s, n \div 2)
         IN  half \o half \o (IF n % 2 = 1 THEN s ELSE "")

RECURSIVE Perms(_)
\* The orders in which the elements of a set can be listed.
Perms(set) ==
    IF set = {} THEN {<<>>}
    ELSE UNION {{<<x>> \o p : p \in Perms(set \ {x})} : x \in set}

Range(seq) == {seq[j] : j \in 1..Len(seq)}

---------------------------------------------------------------------------
(* The Action Guard: src/remediation/__init__.py *)

SAFE_ACTIONS == {"scale_db", "toggle_feature_flag", "restart_service"}

\* d[key] of a dict held as pairs; Absent when the key is missing.
Lookup(d, key) ==
    IF \E j \in 1..Len(d.v) : d.v[j][1] = key
    THEN d.v[CHOOSE j \in 1..Len(d.v) : d.v[j][1] = key][2]
    ELSE Absent

RECURSIVE Dumps(_)
RECURSIVE DumpsItems(_, _)
\* json.dumps(x), with its default separators.
Dumps(x) ==
    CASE x.k = "None" -> "null"
      [] x.k = "str" -> "\"" \o x.v \o "\""
      [] x.k = "int" -> ToString(x.v)
      [] x.k = "bool" -> IF x.v THEN "true" ELSE "false"
      [] x.k = "list" -> "[" \o DumpsItems(x.v, FALSE) \o "]"
      [] x.k = "dict*" -> "{" \o DumpsItems(x.v, TRUE) \o "}"
      [] OTHER -> "{...}"
DumpsItems(seq, pairs) ==
    IF seq = <<>> THEN ""
    ELSE (IF pairs THEN "\"" \o seq[1][1] \o "\": " \o Dumps(seq[1][2])
                   ELSE Dumps(seq[1]))
         \o (IF Len(seq) > 1 THEN ", " ELSE "")
         \o DumpsItems(Tail(seq), pairs)

\* func.HttpResponse(json.dumps(payload), status_code=code); 200 is the default.
HttpResponse(code, payload) ==
    [k |-> "response", status_code |-> code, json |-> payload, text |-> Dumps(payload)]
\* An exception that leaves the handler.
Unhandled(exc, where) == [k |-> "unhandled", exc |-> exc, at |-> where]

\* GuardDenies with a fault: the whitelist test is forgotten.
GuardDenies_NoWhitelist(action, whitelist) == ~Truthy(action)

\* `not action or action not in SAFE_ACTIONS`, for an action that can be hashed.
GuardDenies(action, whitelist) ==
    \/ ~Truthy(action)
    \/ ~(action.k = "str" /\ action.v \in whitelist)

\* main(req): the response, or the exception that escapes. `order` is the order
\* in which list(SAFE_ACTIONS) enumerates the set in this process.
GuardMain(req, whitelist, order) ==
    IF req.k = "invalid" THEN
        HttpResponse(400, D(<< <<"status", S("error")>>,
                               <<"message", S("Invalid JSON.")>> >>))
    ELSE IF req.k # "dict" THEN
        Unhandled("AttributeError", "data.get")
    ELSE
        LET action == Get(req.action, NoneV)
            params == Get(req.params, D(<<>>))
        IN  IF Truthy(action) /\ ~Hashable(action) THEN
                Unhandled("TypeError", "action not in SAFE_ACTIONS")
            ELSE IF GuardDenies(action, whitelist) THEN
                HttpResponse(403, D(<< <<"status", S("denied")>>,
                                       <<"reason", S("unsafe or unknown action")>>,
                                       <<"allowed_actions",
                                         L([j \in 1..Len(order) |-> S(order[j])])>> >>))
            ELSE
                HttpResponse(200, D(<< <<"status", S("ok")>>,
                                       <<"action", action>>,
                                       <<"params", params>>,
                                       <<"message", S("Action executed (simulation).")>> >>))

---------------------------------------------------------------------------
(* The remediation dispatcher: _maybe_remediate of src/function_app *)

\* Bounds of the model.
MaxActions == 2     \* longest plan the plan generator returns
MaxPlanLen == 4     \* a plan is sent through dispatch again while it is at most this long
MaxRequests == 2    \* requests the Action Guard handles in one run

\* resp.text[:300]
TruncLen == 300
\* requests.post(..., timeout=20)
PostTimeout == 20

LongText == Repeat("x", TruncLen + 1)

GuardUrl == "https://aiops-remediation.azurewebsites.net/api/remediation"
OtherUrl == "https://automation.example.net/run"

\* What an executor other than the Action Guard may answer, and how a call may fail.
ExecResponses ==
    {[status_code |-> 200, text |-> LongText],
     [status_code |-> 500, text |-> "Internal Server Error"]}
ExecErrors == {"Read timed out. (read timeout=20)", "ConnectionError: " \o LongText}

SkipReason == "risk too high or remediation endpoint missing"

\* `(act.get("risk") or "").lower()`, for a risk that is a str, None or missing
\* (the plans of this model hold no other).
RiskOf(act) ==
    LET r == Get(act.risk, NoneV)
    IN  Lower(IF Truthy(r) THEN r.v ELSE "")

\* AutoExecute with a fault: the endpoint is not looked at.
AutoExecute_AnyUrl(act, url) == RiskOf(act) \in {"low", "medium"}

\* AutoExecute with a fault: high risk is let through as well.
AutoExecute_High(act, url) == RiskOf(act) \in {"low", "medium", "high"} /\ url # ""

\* `risk in ("low", "medium") and remediation_url`
AutoExecute(act, url) == RiskOf(act) \in {"low", "medium"} /\ url # ""

\* `{"action": name, "params": params}`, as the receiver parses it from the wire.
Payload(act) ==
    [k |-> "dict", action |-> Get(act.name, NoneV), params |-> Get(act.params, D(<<>>))]

\* The headers of the POST: the function key only when one is configured.
Headers(key) ==
    IF Truthy(key)
    THEN << <<"Content-Type", "application/json">>, <<"x-functions-key", key.v>> >>
    ELSE << <<"Content-Type", "application/json">> >>

\* The outcome recorded when the POST returns.
ExecutedOutcome(act, resp) ==
    [k |-> "dict", action |-> Get(act.name, NoneV), status |-> N(resp.status_code),
     response |-> S(Take(resp.text, TruncLen))]

\* OnError with a fault: the exception is swallowed and nothing is recorded.
OnError_Dropped(res, act, ex) == res

\* `except Exception as ex: results.append({... "status": "error", "response": str(ex)})`
OnError(res, act, ex) ==
    Append(res, [k |-> "dict", action |-> Get(act.name, NoneV), status |-> S("error"),
                 response |-> S(ex)])

\* The outcome recorded for an action that is not sent.
SkippedOutcome(act) ==
    [k |-> "dict", action |-> Get(act.name, NoneV), status |-> S("skipped"),
     reason |-> S(SkipReason)]

\* `plan.get("actions", [])` of a plan that is a dict holding a list (or no key).
ActionsOf(p) == Get(p.actions, L(<<>>)).v

\* The record kept of one requests.post: its arguments, the action it was issued
\* for, and how it ended (the status code, or S("raised")).
Call(act, ended) ==
    [pass |-> passes, index |-> idx, url |-> remediation_url,
     headers |-> Headers(remediation_key), json |-> Payload(act),
     timeout |-> PostTimeout, risk |-> act.risk, ended |-> ended]

InLoop == pc = "dispatch" /\ idx <= Len(ActionsOf(plan))

\* One iteration of the loop: the POST to an executor that is not the Action
\* Guard returns some response.
ExecReturns ==
    /\ InLoop
    /\ LET act == ActionsOf(plan)[idx]
       IN  /\ AutoExecute(act, remediation_url)
           /\ remediation_url # GuardUrl
           /\ \E resp \in ExecResponses :
                  /\ results' = Append(results, ExecutedOutcome(act, resp))
                  /\ calls' = Append(calls, Call(act, N(resp.status_code)))
    /\ idx' = idx + 1
    /\ UNCHANGED <<pc, plan, plan0, remediation_url, remediation_key, passes, env, body,
                   incident_ctx, logs_sample, kb_docs, teams_status, response,
                   safe_actions, guard_log>>

\* One iteration of the loop: the POST raises (connection failure, timeout).
ExecRaises ==
    /\ InLoop
    /\ LET act == ActionsOf(plan)[idx]
       IN  /\ AutoExecute(act, remediation_url)
           /\ \E ex \in ExecErrors : results' = OnError(results, act, ex)
           /\ calls' = Append(calls, Call(act, S("raised")))
    /\ idx' = idx + 1
    /\ UNCHANGED <<pc, plan, plan0, remediation_url, remediation_key, passes, env, body,
                   incident_ctx, logs_sample, kb_docs, teams_status, response,
                   safe_actions, guard_log>>

\* One iteration of the loop: the else branch.
Skip ==
    /\ InLoop
    /\ LET act == ActionsOf(plan)[idx]
       IN  /\ ~AutoExecute(act, remediation_url)
           /\ results' = Append(results, SkippedOutcome(act))
    /\ idx' = idx + 1
    /\ UNCHANGED <<pc, plan, plan0, remediation_url, remediation_key, calls, passes, env,
                   body, incident_ctx, logs_sample, kb_docs, teams_status, response,
                   safe_actions, guard_log>>

---------------------------------------------------------------------------
(* The append step of main (enrichment) *)

\* Synth with a fault: the records carry a risk the policy lets through.
Synth_LowRisk(r) ==
    [k |-> "dict", name |-> S("result:" \o Format(r.action)), params |-> r,
     risk |-> S("low")]

\* `{"name": f"result:{r['action']}", "params": r, "risk": "n/a"}`
Synth(r) ==
    [k |-> "dict", name |-> S("result:" \o Format(r.action)), params |-> r,
     risk |-> S("n/a")]

\* Enrich with a fault: the result records replace the actions.
Enrich_Replace(p, res) ==
    IF res = <<>> THEN p
    ELSE [p EXCEPT !.actions = L([j \in 1..Len(res) |-> Synth(res[j])])]

\* `if results: plan.setdefault("actions", []); plan["actions"] += [...]`
Enrich(p, res) ==
    IF res = <<>> THEN p
    ELSE [p EXCEPT !.actions =
              L(Get(p.actions, L(<<>>)).v \o [j \in 1..Len(res) |-> Synth(res[j])])]

\* _maybe_remediate returns and main appends the results to the plan.
AppendResults ==
    /\ pc = "dispatch"
    /\ idx > Len(ActionsOf(plan))
    /\ plan' = Enrich(plan, results)
    /\ pc' = "card"
    /\ UNCHANGED <<plan0, remediation_url, remediation_key, results, idx, calls, passes,
                   env, body, incident_ctx, logs_sample, kb_docs, teams_status, response,
                   safe_actions, guard_log>>

Urls == {"", OtherUrl}

\* The enriched plan goes through steps 4 of main again, whatever the endpoint.
Redispatch ==
    /\ pc = "card"
    /\ Len(ActionsOf(plan)) \in 1..MaxPlanLen
    /\ \E url \in Urls : remediation_url' = url
    /\ plan0' = plan
    /\ results' = <<>>
    /\ idx' = 1
    /\ passes' = passes + 1
    /\ pc' = "dispatch"
    /\ UNCHANGED <<plan, remediation_key, calls, env, body, incident_ctx, logs_sample,
                   kb_docs, teams_status, response, safe_actions, guard_log>>

---------------------------------------------------------------------------
(* Plans of the Plan model, and the dispatch specification *)

ActionNames == {S("scale_db"), S("drop_database"), Absent}
ActionRisks == {Absent, NoneV, S(""), S("low"), S("MEDIUM"), S("high"), S("urgent")}
ActionParams == {Absent}

PlanActions ==
    {[k |-> "dict", name |-> n, params |-> p, risk |-> r] :
        n \in ActionNames, p \in ActionParams, r \in ActionRisks}

ActionLists == UNION {[1..n -> PlanActions] : n \in 0..MaxActions}

\* Summary, confidence (in hundredths; the generator may leave [0,1]) and evidence.
PlanHeads ==
    {[rca_summary |-> S("Connection pool exhausted after deploy"), confidence |-> N(85),
      evidence |-> D(<< <<"kql_name", S("latency")>> >>)],
     [rca_summary |-> S("Unknown"), confidence |-> N(150), evidence |-> D(<<>>)]}

Plans ==
    {[k |-> "dict", rca_summary |-> h.rca_summary, confidence |-> h.confidence,
      actions |-> a, evidence |-> h.evidence] :
        h \in PlanHeads, a \in {L(s) : s \in ActionLists} \cup {Absent}}

\* The settings main reads besides the remediation ones, all unset.
NoEnv ==
    [workspace_id |-> "", search_endpoint |-> "", search_index |-> "",
     search_api_key |-> "", teams_webhook |-> ""]

\* The parts of the state that belong to the stages of main around dispatch.
Idle ==
    /\ env = NoEnv
    /\ body = NoneV
    /\ incident_ctx = NoneV
    /\ logs_sample = <<>>
    /\ kb_docs = <<>>
    /\ teams_status = NoneV
    /\ response = NoneV

Init ==
    /\ pc = "dispatch"
    /\ plan \in Plans
    /\ plan0 = plan
    /\ remediation_url \in Urls
    /\ remediation_key \in {NoneV, S("fn-key")}
    /\ results = <<>>
    /\ idx = 1
    /\ calls = <<>>
    /\ passes = 0
    /\ safe_actions = SAFE_ACTIONS
    /\ guard_log = <<>>
    /\ Idle

Next == ExecReturns \/ ExecRaises \/ Skip \/ AppendResults \/ Redispatch

Spec == Init /\ [][Next]_vars

---------------------------------------------------------------------------
(* The dispatcher posting to the Action Guard *)

\* What requests.post returns for the guard's result: the response, or the 500 of
\* the Functions host when the handler raised.
HttpOf(res) ==
    IF res.k = "unhandled" THEN [status_code |-> 500, text |-> ""]
    ELSE [status_code |-> res.status_code, text |-> res.text]

\* One iteration of the loop: the POST reaches the Action Guard, which answers.
GuardReturns ==
    /\ InLoop
    /\ LET act == ActionsOf(plan)[idx]
       IN  /\ AutoExecute(act, remediation_url)
           /\ remediation_url = GuardUrl
           /\ \E order \in Perms(safe_actions) :
                  LET res == GuardMain(Payload(act), safe_actions, order)
                  IN  /\ results' = Append(results, ExecutedOutcome(act, HttpOf(res)))
                      /\ calls' = Append(calls, Call(act, N(HttpOf(res).status_code)))
                      /\ guard_log' = Append(guard_log,
                             [call |-> Len(calls) + 1, req |-> Payload(act), res |-> res])
    /\ idx' = idx + 1
    /\ UNCHANGED <<pc, plan, plan0, remediation_url, remediation_key, passes, env, body,
                   incident_ctx, logs_sample, kb_docs, teams_status, response,
                   safe_actions>>

ComposeNames == {S("scale_db"), S("drop_database"), S("result:scale_db"), Absent}
ComposeRisks == {Absent, S("low"), S("Medium"), S("high"), S("n/a")}
ComposeParams == {D(<< <<"replicas", N(3)>> >>)}

ComposeActions ==
    {[k |-> "dict", name |-> n, params |-> p, risk |-> r] :
        n \in ComposeNames, p \in ComposeParams, r \in ComposeRisks}

ComposePlans ==
    {[k |-> "dict", rca_summary |-> S("Connection pool exhausted after deploy"),
      confidence |-> N(85), actions |-> L(s), evidence |-> D(<<>>)] :
        s \in UNION {[1..n -> ComposeActions] : n \in 0..MaxActions}}

InitCompose ==
    /\ pc = "dispatch"
    /\ plan \in ComposePlans
    /\ plan0 = plan
    /\ remediation_url = GuardUrl
    /\ remediation_key = S("fn-key")
    /\ results = <<>>
    /\ idx = 1
    /\ calls = <<>>
    /\ passes = 0
    /\ safe_actions = SAFE_ACTIONS
    /\ guard_log = <<>>
    /\ Idle

NextCompose == GuardReturns \/ ExecRaises \/ Skip \/ AppendResults

SpecCompose == InitCompose /\ [][NextCompose]_vars

---------------------------------------------------------------------------
(* The Action Guard serving requests of any client *)

\* The values a client may send as "action" or "params".
GuardActionValues ==
    {Absent, NoneV, S(""), S("scale_db"), S("toggle_feature_flag"), S("restart_service"),
     S("Scale_DB"), S("delete_everything"), N(0), N(7), B(TRUE), L(<<>>),
     L(<<S("scale_db")>>), D(<<>>), D(<< <<"name", S("scale_db")>> >>)}
GuardParamValues == {Absent, D(<< <<"x", N(1)>> >>)}

\* What req.get_json() meets: a body that does not parse, one that parses to
\* something other than an object, or an object.
GuardRequests ==
    {[k |-> "invalid"], NoneV, L(<<>>), S("scale_db"), N(7)}
    \cup {[k |-> "dict", action |-> a, params |-> p] :
              a \in GuardActionValues, p \in GuardParamValues}

GuardRequest ==
    /\ pc = "guard"
    /\ Len(guard_log) < MaxRequests
    /\ \E req \in GuardRequests, order \in Perms(safe_actions) :
           guard_log' = Append(guard_log,
               [call |-> 0, req |-> req, res |-> GuardMain(req, safe_actions, order)])
    /\ UNCHANGED <<pc, plan, plan0, remediation_url, remediation_key, results, idx,
                   calls, passes, env, body, incident_ctx, logs_sample, kb_docs,
                   teams_status, response, safe_actions>>

InitGuard ==
    /\ pc = "guard"
    /\ plan = NoneV
    /\ plan0 = NoneV
    /\ remediation_url = ""
    /\ remediation_key = NoneV
    /\ results = <<>>
    /\ idx = 1
    /\ calls = <<>>
    /\ passes = 0
    /\ safe_actions = SAFE_ACTIONS
    /\ guard_log = <<>>
    /\ Idle

NextGuard == GuardRequest

SpecGuard == InitGuard /\ [][NextGuard]_vars

---------------------------------------------------------------------------
(* The agent's main: src/function_app/__init__.py, lines 317-410 *)

\* Everything main leaves alone until it calls _maybe_remediate.
dispatchVars == <<plan0, results, idx, calls, passes, safe_actions, guard_log>>

\* main stops with an exception nobody handles.
Crash(exc, where) ==
    /\ pc' = "crashed"
    /\ response' = Unhandled(exc, where)

\* The incident context main uses when the caller gives none.
DefaultIncident ==
    [k |-> "dict", title |-> S("Service latency spike"), environment |-> S("prod"),
     severity |-> S("Sev2"), start_time_local |-> S("2024-01-01T00:00:00")]

\* What a caller may send: a GET, a POST whose body does not parse, and POSTs
\* whose body is an object: with no incident, with an incident that has only some
\* of the fields, with a full one.
AgentRequests ==
    {[method |-> "GET", json |-> [k |-> "invalid"]],
     [method |-> "POST", json |-> [k |-> "invalid"]],
     [method |-> "POST", json |-> [k |-> "dict", question |-> Absent, incident |-> Absent]],
     [method |-> "POST", json |-> [k |-> "dict", question |-> S("Why 5xx?"),
         incident |-> [k |-> "dict", title |-> Absent, environment |-> Absent,
                       severity |-> S("Sev1"), start_time_local |-> Absent]]],
     [method |-> "POST", json |-> [k |-> "dict", question |-> S("Why 5xx?"),
         incident |-> [DefaultIncident EXCEPT !.title = S("Checkout 5xx")]]]}

\* Lines 326-348: read the body ({} when it does not parse) and take the inputs.
ParseBody ==
    /\ pc = "start"
    /\ \E req \in AgentRequests :
           LET parsed == IF req.method = "POST" /\ req.json.k # "invalid"
                         THEN req.json
                         ELSE [k |-> "dict", question |-> Absent, incident |-> Absent]
           IN  /\ body' = parsed
               /\ IF parsed.k # "dict"
                  THEN /\ Crash("AttributeError", "body.get")
                       /\ UNCHANGED incident_ctx
                  ELSE /\ incident_ctx' = Get(parsed.incident, DefaultIncident)
                       /\ pc' = "kql"
                       /\ UNCHANGED response
    /\ UNCHANGED <<plan, remediation_url, remediation_key, env, logs_sample, kb_docs,
                   teams_status>>
    /\ UNCHANGED dispatchVars

LogRows == << <<"Message", S("timeout talking to db")>> >>

\* Line 367 and _run_kql: the rows of the first table, [] when no workspace is
\* configured, when the query raises or when it returns no table.
RunKql ==
    /\ pc = "kql"
    /\ IF env.workspace_id = ""
       THEN logs_sample' = <<>>
       ELSE \E outcome \in {"raises", "empty", "rows"} :
                logs_sample' = IF outcome = "rows" THEN <<D(LogRows)>> ELSE <<>>
    /\ pc' = "rag"
    /\ UNCHANGED <<plan, remediation_url, remediation_key, env, body, incident_ctx,
                   kb_docs, teams_status, response>>
    /\ UNCHANGED dispatchVars

\* A document as _rag_search shapes it.
KbDoc == [id |-> "rb-1", title |-> "Runbook: db pool", content |-> "Scale the pool", url |-> ""]

\* Lines 370-377 and _rag_search: the search runs only when it is configured, and
\* nothing catches what client.search raises.
RagSearch ==
    /\ pc = "rag"
    /\ IF env.search_endpoint # "" /\ env.search_index # "" /\ env.search_api_key # ""
       THEN \E outcome \in {"raises", "empty", "docs"} :
                IF outcome = "raises"
                THEN /\ Crash("HttpResponseError", "client.search")
                     /\ UNCHANGED kb_docs
                ELSE /\ kb_docs' = IF outcome = "docs" THEN <<KbDoc>> ELSE <<>>
                     /\ pc' = "llm"
                     /\ UNCHANGED response
       ELSE /\ kb_docs' = <<>>
            /\ pc' = "llm"
            /\ UNCHANGED response
    /\ UNCHANGED <<plan, remediation_url, remediation_key, env, body, incident_ctx,
                   logs_sample, teams_status>>
    /\ UNCHANGED dispatchVars

\* The plan _call_openai returns when the call or the parsing of its content fails.
FallbackPlan ==
    [k |-> "dict", rca_summary |-> S("Unable to generate analysis due to error."),
     confidence |-> N(0), actions |-> L(<<>>), evidence |-> D(<<>>)]

\* What json.loads(content) may give besides a plan of the Plan model: JSON that
\* is no object, and an object whose "actions" or "evidence" is null.
OddPlans ==
    {L(<<>>),
     S("I cannot help with that."),
     [k |-> "dict", rca_summary |-> S("Unknown"), confidence |-> N(20),
      actions |-> NoneV, evidence |-> D(<<>>)],
     [k |-> "dict", rca_summary |-> S("Unknown"), confidence |-> N(20),
      actions |-> L(<<>>), evidence |-> NoneV]}

GeneratedPlans == {p \in Plans : p.confidence = N(85)} \cup OddPlans

\* Lines 380-381 and _call_openai: whatever the content parses to is the plan; the
\* fallback plan when the call raises or the content is not JSON.
CallOpenAI ==
    /\ pc = "llm"
    /\ \/ plan' = FallbackPlan
       \/ \E p \in GeneratedPlans : plan' = p
    /\ pc' = "remediate"
    /\ UNCHANGED <<remediation_url, remediation_key, env, body, incident_ctx,
                   logs_sample, kb_docs, teams_status, response>>
    /\ UNCHANGED dispatchVars

\* Line 384, entering _maybe_remediate: `for act in plan.get("actions", [])`.
Remediate ==
    /\ pc = "remediate"
    /\ IF plan.k # "dict"
       THEN /\ Crash("AttributeError", "plan.get")
            /\ UNCHANGED <<plan0, results, idx>>
       ELSE IF Get(plan.actions, L(<<>>)).k # "list"
       THEN /\ Crash("TypeError", "for act in plan.get(\"actions\", [])")
            /\ UNCHANGED <<plan0, results, idx>>
       ELSE /\ plan0' = plan
            /\ results' = <<>>
            /\ idx' = 1
            /\ pc' = "dispatch"
            /\ UNCHANGED response
    /\ UNCHANGED <<plan, remediation_url, remediation_key, calls, passes, env, body,
                   incident_ctx, logs_sample, kb_docs, teams_status, safe_actions,
                   guard_log>>

\* Why _build_adaptive_card raises on this plan and incident, "" when it does not.
CardError(p, incident) ==
    IF Get(p.evidence, D(<<>>)).k # "dict*" THEN "AttributeError"
    ELSE IF \E f \in {"title", "environment", "severity", "start_time_local"} :
                incident[f] = Absent THEN "KeyError"
    ELSE ""

\* Line 397: build the card.
BuildCard ==
    /\ pc = "card"
    /\ IF CardError(plan, incident_ctx) # ""
       THEN Crash(CardError(plan, incident_ctx), "_build_adaptive_card")
       ELSE pc' = "post" /\ UNCHANGED response
    /\ UNCHANGED <<plan, remediation_url, remediation_key, env, body, incident_ctx,
                   logs_sample, kb_docs, teams_status>>
    /\ UNCHANGED dispatchVars

\* Line 398 and _post_to_teams: None without a webhook or when the post raises,
\* else the status code.
PostToTeams ==
    /\ pc = "post"
    /\ IF env.teams_webhook = ""
       THEN teams_status' = NoneV
       ELSE \E outcome \in {NoneV, N(200), N(429)} : teams_status' = outcome
    /\ pc' = "respond"
    /\ UNCHANGED <<plan, remediation_url, remediation_key, env, body, incident_ctx,
                   logs_sample, kb_docs, response>>
    /\ UNCHANGED dispatchVars

\* Lines 401-410: the JSON response.
Respond ==
    /\ pc = "respond"
    /\ response' =
           [k |-> "response", status_code |-> 200,
            json |-> [ok |-> B(TRUE), teams_post_status |-> teams_status, plan |-> plan,
                      kb_docs_used |-> [j \in 1..Len(kb_docs) |-> kb_docs[j].title]]]
    /\ pc' = "done"
    /\ UNCHANGED <<plan, remediation_url, remediation_key, env, body, incident_ctx,
                   logs_sample, kb_docs, teams_status>>
    /\ UNCHANGED dispatchVars

Envs ==
    [workspace_id : {"", "ws-0001"}, search_endpoint : {"", "https://kb.search.windows.net"},
     search_index : {"runbooks"}, search_api_key : {"", "search-key"},
     teams_webhook : {"", "https://outlook.office.com/webhook/x"}]

InitMain ==
    /\ pc = "start"
    /\ env \in Envs
    /\ remediation_url \in Urls
    /\ remediation_key = NoneV
    /\ plan = NoneV
    /\ plan0 = NoneV
    /\ results = <<>>
    /\ idx = 1
    /\ calls = <<>>
    /\ passes = 0
    /\ safe_actions = SAFE_ACTIONS
    /\ guard_log = <<>>
    /\ body = NoneV
    /\ incident_ctx = NoneV
    /\ logs_sample = <<>>
    /\ kb_docs = <<>>
    /\ teams_status = NoneV
    /\ response = NoneV

NextMain ==
    \/ ParseBody \/ RunKql \/ RagSearch \/ CallOpenAI \/ Remediate
    \/ ExecReturns \/ ExecRaises \/ Skip \/ AppendResults
    \/ BuildCard \/ PostToTeams \/ Respond

SpecMain == InitMain /\ [][NextMain]_vars

---------------------------------------------------------------------------
(* Properties of the dispatcher and of the append step *)

\* The actions of the pass of dispatch in progress (or just finished).
PassActions == ActionsOf(plan0)

\* The calls issued for action k in the current pass.
CallsFor(k) == {j \in 1..Len(calls) : calls[j].pass = passes /\ calls[j].index = k}

StartsWith(s, prefix) == Len(s) >= Len(prefix) /\ SubSeq(s, 1, Len(prefix)) = prefix

\* The risk tag of an action reads low or medium, whatever its letter case.
LowOrMedium(act) == act.risk.k = "str" /\ Lower(act.risk.v) \in {"low", "medium"}

\* C1: an action's POST is issued if and only if the endpoint is non-empty and the
\* action's risk, lowercased, is low or medium; it is issued at most once, also
\* when it fails; every other action (high, absent, null, empty, unrecognized) is
\* recorded as skipped.
C1_ExecutorIffLowMedium ==
    \A k \in 1..Len(PassActions) :
        LET act == PassActions[k]
            wanted == remediation_url # "" /\ LowOrMedium(act)
            n == Cardinality(CallsFor(k))
        IN  /\ n <= 1
            /\ n = 1 => wanted
            /\ k < idx => /\ n = 1 <=> wanted
                          /\ ~wanted => results[k].status = S("skipped")

\* C1's case: with an endpoint set, one action's only call failed and a high-risk
\* action was skipped.
C1_Witness ==
    /\ pc = "card"
    /\ remediation_url # ""
    /\ \E k \in 1..Len(results) :
           /\ results[k].status = S("error")
           /\ Cardinality(CallsFor(k)) = 1
    /\ \E k \in 1..Len(results) :
           /\ PassActions[k].risk = S("high")
           /\ results[k].status = S("skipped")

\* C3: the loop records exactly one outcome per action, in the order of the
\* actions and under each action's name; a call that raised is recorded as
\* "error", a call that returned under its status code, an action not sent as
\* "skipped", whatever happened to the other actions.
C3_FailureIsolation ==
    /\ Len(results) = idx - 1
    /\ pc = "card" => Len(results) = Len(PassActions)
    /\ \A k \in 1..Len(results) :
           /\ results[k].action = Get(PassActions[k].name, NoneV)
           /\ \A j \in CallsFor(k) :
                  results[k].status =
                      (IF calls[j].ended = S("raised") THEN S("error") ELSE calls[j].ended)
           /\ CallsFor(k) = {} => results[k].status = S("skipped")

\* C3's case: a call in the middle of a plan raised, and the actions before and
\* after it have their own outcomes.
C3_Witness ==
    /\ pc = "card"
    /\ \E k \in 2..(Len(results) - 1) :
           /\ results[k].status = S("error")
           /\ results[k - 1].status = N(200)
           /\ results[k + 1].status = S("skipped")

\* The name of the record synthesized for outcome r.
ResultName(r) == IF r.action.k = "str" THEN "result:" \o r.action.v ELSE "result:None"

\* C4: after the append step the plan's actions are the original actions, in
\* order and unchanged, followed by one record per outcome in outcome order
\* (name "result:" + the outcome's action, params the outcome, risk "n/a");
\* summary, confidence and evidence are untouched, and with no outcome the plan
\* is unchanged.
C4_Enrichment ==
    pc = "card" =>
        /\ plan.rca_summary = plan0.rca_summary
        /\ plan.confidence = plan0.confidence
        /\ plan.evidence = plan0.evidence
        /\ results = <<>> => plan = plan0
        /\ results # <<>> =>
               LET n == Len(PassActions)
                   after == plan.actions.v
               IN  /\ plan.actions.k = "list"
                   /\ Len(after) = n + Len(results)
                   /\ \A j \in 1..n : after[j] = PassActions[j]
                   /\ \A j \in 1..Len(results) :
                          after[n + j] = [k |-> "dict", name |-> S(ResultName(results[j])),
                                          params |-> results[j], risk |-> S("n/a")]

\* C4's case: a two-action plan with a confidence outside [0,1] was enriched.
C4_Witness ==
    /\ pc = "card"
    /\ passes = 0
    /\ Len(results) = 2
    /\ plan0.confidence = N(150)
    /\ Len(plan.actions.v) = 4

\* A record the append step synthesized (its name starts with "result:").
IsResultRecord(act) == act.name.k = "str" /\ StartsWith(act.name.v, "result:")

\* C5: no synthesized result record is ever sent to the executor, in any pass
\* and with any endpoint; each is recorded as skipped.
C5_ResultRecordsNeverExecuted ==
    /\ \A j \in 1..Len(calls) :
           ~(calls[j].json.action.k = "str" /\ StartsWith(calls[j].json.action.v, "result:"))
    /\ \A k \in 1..Len(results) :
           IsResultRecord(PassActions[k]) =>
               /\ PassActions[k].risk = S("n/a")
               /\ results[k].status = S("skipped")

\* C5's case: an enriched plan went through dispatch again with an endpoint set;
\* an original action was sent again and a result record was skipped.
C5_Witness ==
    /\ pc = "card"
    /\ passes >= 1
    /\ remediation_url # ""
    /\ CallsFor(1) # {}
    /\ \E k \in 1..Len(results) :
           /\ IsResultRecord(PassActions[k])
           /\ results[k].status = S("skipped")

\* C6 as stated: with no endpoint every outcome is "skipped" with the reason
\* "remediation endpoint missing", a reason that differs from the "risk too high"
\* given when the endpoint is set; the executor is never invoked.
C6_ReasonNamesMissingEndpoint ==
    /\ remediation_url = "" =>
           /\ \A k \in 1..Len(results) :
                  /\ results[k].status = S("skipped")
                  /\ results[k].reason = S("remediation endpoint missing")
           /\ \A k \in 1..Len(PassActions) : CallsFor(k) = {}
    /\ remediation_url # "" =>
           \A k \in 1..Len(results) :
               results[k].status = S("skipped") => results[k].reason = S("risk too high")

\* C6 as amended: with no endpoint every action gets the outcome "skipped" and
\* the executor is never invoked; the reason is the one text the code has for
\* every skip, "risk too high or remediation endpoint missing", with or without
\* an endpoint.
C6_SkippedWithoutEndpoint ==
    /\ remediation_url = "" =>
           /\ Len(results) = idx - 1
           /\ pc = "card" => Len(results) = Len(PassActions)
           /\ \A k \in 1..Len(results) : results[k].status = S("skipped")
           /\ \A k \in 1..Len(PassActions) : CallsFor(k) = {}
    /\ \A k \in 1..Len(results) :
           results[k].status = S("skipped") =>
               results[k].reason = S("risk too high or remediation endpoint missing")

\* C6's case: with no endpoint, a low-risk action was skipped.
C6_Witness ==
    /\ pc = "card"
    /\ remediation_url = ""
    /\ \E k \in 1..Len(results) :
           /\ PassActions[k].risk = S("low")
           /\ results[k].status = S("skipped")

\* The detail of an outcome: the response echo or failure message, or the reason.
Detail(r) == IF "response" \in DOMAIN r THEN r.response.v ELSE r.reason.v

\* C9: the detail of every recorded outcome has at most 300 characters.
C9_DetailBounded == \A k \in 1..Len(results) : Len(Detail(results[k])) <= 300

---------------------------------------------------------------------------
(* Properties of the Action Guard *)

\* The "action" of a request the guard parsed: Absent when there is none.
RequestedAction(req) == IF req.k = "dict" THEN req.action ELSE Absent

\* The action names of a denial's allowed_actions, as a set.
AllowedSet(res) == {a.v : a \in Range(Lookup(res.json, "allowed_actions").v)}

IsOk(res) == res.k = "response" /\ res.status_code = 200 /\ Lookup(res.json, "status") = S("ok")
IsDenied(res) ==
    res.k = "response" /\ res.status_code = 403 /\ Lookup(res.json, "status") = S("denied")
IsInvalidJson(res) ==
    /\ res.k = "response"
    /\ res.status_code = 400
    /\ Lookup(res.json, "status") = S("error")
    /\ Lookup(res.json, "message") = S("Invalid JSON.")

Whitelisted(a) == a.k = "str" /\ a.v \in {"scale_db", "toggle_feature_flag", "restart_service"}

\* C2: the guard answers ok (200, echoing action and params) only for an action of
\* the whitelist; for every parsed request whose action is missing, empty or not
\* in the whitelist it answers denied (403) with the whole whitelist as
\* allowed_actions; the whitelist never changes.
C2_OkOnlyWhitelistedElseDenied ==
    /\ safe_actions = {"scale_db", "toggle_feature_flag", "restart_service"}
    /\ \A j \in 1..Len(guard_log) :
           LET req == guard_log[j].req
               res == guard_log[j].res
               a == RequestedAction(req)
           IN  /\ IsOk(res) =>
                      /\ Whitelisted(a)
                      /\ Lookup(res.json, "action") = a
                      /\ Lookup(res.json, "params") = Get(req.params, D(<<>>))
               /\ (req.k # "invalid" /\ ~Whitelisted(a)) =>
                      /\ IsDenied(res)
                      /\ AllowedSet(res) = {"scale_db", "toggle_feature_flag", "restart_service"}

\* C7: every request ends in exactly one of error/400 "Invalid JSON.", denied/403
\* or ok/200, never in an unhandled failure; a body that does not parse ends in
\* error/400, and only a parsed body is denied or accepted.
C7_GuardIsTotal ==
    \A j \in 1..Len(guard_log) :
        LET req == guard_log[j].req
            res == guard_log[j].res
        IN  /\ res.k = "response"
            /\ IsInvalidJson(res) \/ IsDenied(res) \/ IsOk(res)
            /\ req.k = "invalid" <=> IsInvalidJson(res)

---------------------------------------------------------------------------
(* Properties of the agent's main *)

\* C8: whatever is missing from the configuration and whatever the collaborators
\* do, the invocation is never ended by an unhandled error, and once it is over
\* it has returned a JSON response.
C8_AlwaysResponds ==
    /\ pc # "crashed"
    /\ response.k # "unhandled"
    /\ pc = "done" => response.k = "response"

=============================================================================
